---- MODULE Spec2Model ----
(***************************************************************************)
(* Executive Co-Pilot (src/app.py): the pipeline that finds a workbook,    *)
(* detects the header row, cleans and auto-repairs the table, maps the     *)
(* seven roles onto columns, normalises the values, filters the rows and   *)
(* exports them.                                                           *)
(*                                                                         *)
(* Python strings are TLA+ strings; a character is a string of length 1.   *)
(* A cell of a table is a record [k, s, a, b, c]:                          *)
(*   k = "str"    a text cell, s its text                                  *)
(*   k = "int"    an int64 value a                                         *)
(*   k = "float"  a float64 value, the reduced fraction a / b (b > 0)      *)
(*   k = "nan"    numpy NaN (an empty cell)                                *)
(*   k = "ts"     a pandas Timestamp, year a, month b, day c               *)
(*   k = "nat"    pandas NaT                                               *)
(* A float is kept as an exact fraction: the model's values have few       *)
(* digits, where IEEE rounding of a parsed decimal and of repr() is exact; *)
(* only the quotient Rev_per_Unit may be a non-decimal fraction, and it is *)
(* never formatted.                                                        *)
(***************************************************************************)
EXTENDS Integers, Sequences, FiniteSets, TLC

\* ------------------------------------------------------------------------
\* Python str operations
\* ------------------------------------------------------------------------
UpperLetters == "ABCDEFGHIJKLMNOPQRSTUVWXYZ"
LowerLetters == "abcdefghijklmnopqrstuvwxyz"
DigitChars == "0123456789"
Whitespace == {" "}

CharAt(s, i) == SubSeq(s, i, i)

IsDigit(ch) == \E i \in 1..Len(DigitChars) : CharAt(DigitChars, i) = ch

DigitVal(ch) == CHOOSE d \in 0..9 : CharAt(DigitChars, d + 1) = ch

LowerChar(ch) ==
    IF \E i \in 1..Len(UpperLetters) : CharAt(UpperLetters, i) = ch
    THEN LET i == CHOOSE j \in 1..Len(UpperLetters) : CharAt(UpperLetters, j) = ch
         IN  CharAt(LowerLetters, i)
    ELSE ch

\* str.lower()
RECURSIVE lower(_)
lower(s) == IF s = "" THEN "" ELSE LowerChar(Head(s)) \o lower(Tail(s))

\* str.startswith(prefix)
startswith(s, prefix) ==
    Len(s) >= Len(prefix) /\ SubSeq(s, 1, Len(prefix)) = prefix

RECURSIVE lstrip(_)
lstrip(s) == IF s # "" /\ Head(s) \in Whitespace THEN lstrip(Tail(s)) ELSE s

RECURSIVE rstrip(_)
rstrip(s) ==
    IF s # "" /\ CharAt(s, Len(s)) \in Whitespace
    THEN rstrip(SubSeq(s, 1, Len(s) - 1))
    ELSE s

\* str.strip()
strip(s) == rstrip(lstrip(s))

\* a variant that takes the decimal point for a separator too
RECURSIVE remove_commas_and_points(_)
remove_commas_and_points(s) ==
    IF s = "" THEN ""
    ELSE (IF Head(s) \in {",", "."} THEN "" ELSE Head(s))
            \o remove_commas_and_points(Tail(s))

\* str.replace(",", "")
RECURSIVE remove_commas(_)
remove_commas(s) ==
    IF s = "" THEN ""
    ELSE (IF Head(s) = "," THEN "" ELSE Head(s)) \o remove_commas(Tail(s))

AllDigits(s) == \A i \in 1..Len(s) : IsDigit(CharAt(s, i))

\* the value of a string of decimal digits ("" is 0)
RECURSIVE DigitsToNat(_)
DigitsToNat(s) ==
    IF s = "" THEN 0
    ELSE 10 * DigitsToNat(SubSeq(s, 1, Len(s) - 1)) + DigitVal(CharAt(s, Len(s)))

\* str(n) of a natural number
RECURSIVE NatToStr(_)
NatToStr(n) ==
    IF n < 10 THEN CharAt(DigitChars, n + 1)
    ELSE NatToStr(n \div 10) \o CharAt(DigitChars, (n % 10) + 1)

\* str(n) of an int
IntToStr(n) == IF n < 0 THEN "-" \o NatToStr(-n) ELSE NatToStr(n)

RECURSIVE Pow10(_)
Pow10(k) == IF k = 0 THEN 1 ELSE 10 * Pow10(k - 1)

Abs(n) == IF n < 0 THEN -n ELSE n

RECURSIVE GCD(_, _)
GCD(x, y) == IF y = 0 THEN x ELSE GCD(y, x % y)

\* ------------------------------------------------------------------------
\* Cells
\* ------------------------------------------------------------------------
Cell(k, s, a, b, c) == [k |-> k, s |-> s, a |-> a, b |-> b, c |-> c]
Str(s) == Cell("str", s, 0, 1, 0)
I64(n) == Cell("int", "", n, 1, 0)
NaN == Cell("nan", "", 0, 1, 0)
NaT == Cell("nat", "", 0, 1, 0)
Ts(y, m, d) == Cell("ts", "", y, m, d)

\* the float p / q, reduced
F64(p, q) ==
    LET g == GCD(Abs(p), q)
    IN  Cell("float", "", p \div g, q \div g, 0)

\* pd.isna / pd.notnull
isna(x) == x.k \in {"nan", "nat"}

IsNumber(x) == x.k \in {"int", "float"}

IsZero(x) == IsNumber(x) /\ x.a = 0

\* the least k with q dividing 10^k, for the q of a decimal fraction
RECURSIVE DecimalPlaces(_, _)
DecimalPlaces(q, k) ==
    IF Pow10(k) % q = 0 THEN k ELSE DecimalPlaces(q, k + 1)

\* leading zeros up to width w
RECURSIVE ZeroPad(_, _)
ZeroPad(s, w) == IF Len(s) >= w THEN s ELSE ZeroPad("0" \o s, w)

\* repr() of a float that is a decimal fraction: "1200.0", "2.5", "-0.25"
FloatToStr(x) ==
    LET k == DecimalPlaces(x.b, 0)
        whole == Abs(x.a) \div x.b
        frac == ((Abs(x.a) % x.b) * Pow10(k)) \div x.b
    IN  (IF x.a < 0 THEN "-" ELSE "") \o NatToStr(whole) \o "."
        \o (IF k = 0 THEN "0" ELSE ZeroPad(NatToStr(frac), k))

\* str(Timestamp) at midnight, as astype(str) prints it: "2024-01-05"
TsToStr(x) ==
    ZeroPad(NatToStr(x.a), 4) \o "-" \o ZeroPad(NatToStr(x.b), 2) \o "-"
    \o ZeroPad(NatToStr(x.c), 2)

\* str(x), the element-wise result of Series.astype(str)
str(x) ==
    CASE x.k = "str" -> x.s
      [] x.k = "int" -> IntToStr(x.a)
      [] x.k = "float" -> FloatToStr(x)
      [] x.k = "nan" -> "nan"
      [] x.k = "nat" -> "NaT"
      [] x.k = "ts" -> TsToStr(x)

\* The decimal literals float() and pd.to_numeric accept, over the model's
\* alphabet: optional surrounding whitespace, an optional sign, digits with
\* at most one point and at least one digit.  (Exponents, "inf", "nan" and
\* digit-group underscores are outside the alphabet of the model's cells.)
PointAt(s) == IF \E i \in 1..Len(s) : CharAt(s, i) = "."
              THEN CHOOSE i \in 1..Len(s) : CharAt(s, i) = "."
              ELSE 0

Unsigned(s) == IF s # "" /\ Head(s) \in {"+", "-"} THEN Tail(s) ELSE s

IsDecimalLiteral(s) ==
    LET u == Unsigned(strip(s))
        p == PointAt(u)
    IN  IF p = 0
        THEN u # "" /\ AllDigits(u)
        ELSE /\ AllDigits(SubSeq(u, 1, p - 1))
             /\ AllDigits(SubSeq(u, p + 1, Len(u)))
             /\ Len(u) > 1

\* the value of a decimal literal: an int cell without a point, else a float
ParseDecimal(s) ==
    LET t == strip(s)
        neg == t # "" /\ Head(t) = "-"
        u == Unsigned(t)
        p == PointAt(u)
    IN  IF p = 0
        THEN I64(IF neg THEN -DigitsToNat(u) ELSE DigitsToNat(u))
        ELSE LET ip == SubSeq(u, 1, p - 1)
                 fp == SubSeq(u, p + 1, Len(u))
                 n == DigitsToNat(ip) * Pow10(Len(fp)) + DigitsToNat(fp)
             IN  F64(IF neg THEN -n ELSE n, Pow10(Len(fp)))

\* pd.to_datetime(..., errors="coerce") of one text: the model's date texts are
\* ISO dates "YYYY-MM-DD"; every other text of the model's alphabet (words,
\* decimal literals) is taken as unparseable.
DaysIn(y, m) ==
    IF m \in {4, 6, 9, 11} THEN 30
    ELSE IF m # 2 THEN 31
    ELSE IF (y % 4 = 0 /\ y % 100 # 0) \/ y % 400 = 0 THEN 29 ELSE 28

IsIsoDate(s) ==
    /\ Len(s) = 10
    /\ CharAt(s, 5) = "-" /\ CharAt(s, 8) = "-"
    /\ AllDigits(SubSeq(s, 1, 4)) /\ AllDigits(SubSeq(s, 6, 7))
    /\ AllDigits(SubSeq(s, 9, 10))
    /\ DigitsToNat(SubSeq(s, 6, 7)) \in 1..12
    /\ DigitsToNat(SubSeq(s, 9, 10))
         \in 1..DaysIn(DigitsToNat(SubSeq(s, 1, 4)), DigitsToNat(SubSeq(s, 6, 7)))

\* pd.to_datetime of one value: a Timestamp passes through, a number is an
\* offset in nanoseconds from the epoch (the day it falls on, for the model's
\* small numbers), a text is parsed, anything unparseable is NaT
to_datetime(x) ==
    CASE x.k = "ts" -> x
      [] x.k \in {"int", "float"} -> Ts(1970, 1, 1)
      [] x.k = "str" /\ IsIsoDate(strip(x.s)) ->
            LET t == strip(x.s)
            IN  Ts(DigitsToNat(SubSeq(t, 1, 4)), DigitsToNat(SubSeq(t, 6, 7)),
                   DigitsToNat(SubSeq(t, 9, 10)))
      [] OTHER -> NaT

\* Series.dt.to_period("M").dt.to_timestamp(): the first day of the month
to_month(x) == IF x.k = "ts" THEN Ts(x.a, x.b, 1) ELSE NaT

\* ------------------------------------------------------------------------
\* Tables (pandas DataFrame): cols is the sequence of columns, each a name
\* and its n values; ok = FALSE stands for a raised exception.
\* ------------------------------------------------------------------------
Column(name, vals) == [name |-> name, vals |-> vals]
Table(cols, n) == [ok |-> TRUE, cols |-> cols, n |-> n]
Raised == [ok |-> FALSE, cols |-> <<>>, n |-> 0]

\* list(df.columns)
columns(df) == [i \in 1..Len(df.cols) |-> df.cols[i].name]

\* col in df.columns
HasColumn(df, name) == \E i \in 1..Len(df.cols) : df.cols[i].name = name

\* the positions of the columns called name (pandas allows several)
Positions(df, name) == {i \in 1..Len(df.cols) : df.cols[i].name = name}

RECURSIVE SeqFilter(_, _)
\* the subsequence of s at the positions in keep
SeqFilter(s, keep) ==
    IF s = <<>> THEN <<>>
    ELSE LET rest == SeqFilter(SubSeq(s, 1, Len(s) - 1), keep)
         IN  IF Len(s) \in keep THEN Append(rest, s[Len(s)]) ELSE rest

\* A worksheet, as openpyxl hands it to pandas: a sequence of rows of equal
\* width, an empty cell being NaN.
Width(ws) == IF ws = <<>> THEN 0 ELSE Len(ws[1])

\* the dtype pandas infers for a column read from a sheet: all numbers with a
\* NaN or a float among them become float64, all ints stay int64, anything
\* else stays an object column of the cells as they are
InferDtype(vals) ==
    IF vals # <<>> /\ \A i \in 1..Len(vals) : IsNumber(vals[i]) \/ vals[i].k = "nan"
    THEN IF \E i \in 1..Len(vals) : vals[i].k \in {"nan", "float"}
         THEN [i \in 1..Len(vals) |->
                 IF vals[i].k = "int" THEN F64(vals[i].a, 1) ELSE vals[i]]
         ELSE vals
    ELSE vals

\* pandas' renaming of repeated header labels: the second "x" becomes "x.1"
DedupNames(names) ==
    [j \in 1..Len(names) |->
        LET before == Cardinality({i \in 1..(j - 1) : names[i] = names[j]})
        IN  IF before = 0 THEN names[j]
            ELSE names[j] \o "." \o NatToStr(before)]

\* pd.read_excel(EXCEL_FILE, sheet_name=sheet, header=h): row h names the
\* columns (an empty header cell is named "Unnamed: <position>"), the rows
\* below it are the data; a header row the sheet does not have raises.
read_excel(ws, h) ==
    IF h >= Len(ws) THEN Raised
    ELSE LET w == Width(ws)
             labels == [j \in 1..w |->
                          IF isna(ws[h + 1][j])
                          THEN "Unnamed: " \o NatToStr(j - 1)
                          ELSE str(ws[h + 1][j])]
             names == DedupNames(labels)
             nrows == Len(ws) - h - 1
         IN  Table([j \in 1..w |->
                      Column(names[j],
                             InferDtype([r \in 1..nrows |-> ws[h + 1 + r][j]]))],
                   nrows)

\* pd.read_excel(EXCEL_FILE, sheet_name=sheet, header=None): every row is
\* data and the columns are labelled 0, 1, ... (written here as their digits)
read_excel_noheader(ws) ==
    Table([j \in 1..Width(ws) |->
             Column(NatToStr(j - 1),
                    InferDtype([r \in 1..Len(ws) |-> ws[r][j]]))],
          Len(ws))

\* app.py 33-36
load_with_header(ws, h) ==
    LET df == read_excel(ws, h)
    IN  IF ~df.ok THEN Raised
        ELSE Table([j \in 1..Len(df.cols) |->
                      Column(strip(df.cols[j].name), df.cols[j].vals)], df.n)

\* app.py 44: the number of column names that are placeholders or empty
NoiseScore(d) ==
    Cardinality({j \in 1..Len(d.cols) :
                    startswith(lower(d.cols[j].name), "unnamed")
                    \/ d.cols[j].name = ""})

\* DataFrame.dropna(how="all", axis=1)
dropna_all_columns(df) ==
    Table(SeqFilter(df.cols,
                    {j \in 1..Len(df.cols) :
                        ~(\A r \in 1..Len(df.cols[j].vals) : isna(df.cols[j].vals[r]))}),
          df.n)

\* app.py 54-56: the cleanup of the loaded table
Cleanup(df) ==
    LET named == Table(SeqFilter(df.cols,
                          {j \in 1..Len(df.cols) :
                              ~startswith(lower(df.cols[j].name), "unnamed")}),
                       df.n)
        full == dropna_all_columns(named)
    IN  Table([j \in 1..Len(full.cols) |->
                 Column(strip(full.cols[j].name), full.cols[j].vals)], full.n)

Min(a, b) == IF a < b THEN a ELSE b

\* app.py 62-68: one header token looks like a date or a number
LooksLikeData(c) ==
    \/ ~isna(to_datetime(Str(c)))
    \/ IsDecimalLiteral(remove_commas(c))

\* app.py 61: how many leading header tokens are inspected
HeaderTokens == 7

\* app.py 69: how many of them must look like data
DataLikeThreshold == 3

\* a variant that asks for more than the threshold
headers_look_like_data_strict(names) ==
    Cardinality({j \in 1..Min(HeaderTokens, Len(names)) :
                    LooksLikeData(names[j])}) > DataLikeThreshold

\* app.py 59-69
headers_look_like_data(names) ==
    LET num_like == Cardinality({j \in 1..Min(HeaderTokens, Len(names)) :
                                    LooksLikeData(names[j])})
    IN  num_like >= DataLikeThreshold

\* app.py 74
expected == <<"Date", "Company", "Region", "Units_Sold", "Revenue",
              "Market_Share_%", "Customer_Satisfaction_%">>

\* app.py 72-77: reload without a header and name the leading columns
Repair(ws) ==
    LET tmp == dropna_all_columns(read_excel_noheader(ws))
        k == Min(Len(expected), Len(tmp.cols))
    IN  Table([j \in 1..k |-> Column(expected[j], tmp.cols[j].vals)], tmp.n)

\* app.py 71-77
AutoRepair(ws, df) ==
    IF headers_look_like_data(columns(df)) THEN Repair(ws) ELSE df

\* ------------------------------------------------------------------------
\* Column mapping (app.py 91-132)
\* ------------------------------------------------------------------------
None == <<>>
Some(v) == <<v>>

Roles == {"date", "company", "region", "units", "revenue", "share", "csat"}
OptionalRoles == {"date", "share", "csat"}

\* app.py 98-104: each role's aliases, in the order they are tried
Aliases ==
    [date    |-> <<"date", "order date", "month", "period">>,
     company |-> <<"company", "brand", "player">>,
     region  |-> <<"region", "zone", "area", "state">>,
     units   |-> <<"units_sold", "units", "quantity", "qty">>,
     revenue |-> <<"revenue", "sales", "amount", "net sales", "turnover">>,
     share   |-> <<"market_share_%", "market share %", "market share", "share">>,
     csat    |-> <<"customer_satisfaction_%", "csat", "satisfaction %",
                   "customer satisfaction %">>]

\* app.py 92: low = {c.lower(): c for c in colnames}; a later column with the
\* same lowercased name replaces an earlier one.  Given as the lookup low[n].
LowKeys(colnames) == {lower(colnames[i]) : i \in 1..Len(colnames)}

LowGet(colnames, n) ==
    LET last == CHOOSE i \in 1..Len(colnames) :
                    /\ lower(colnames[i]) = n
                    /\ \A j \in (i + 1)..Len(colnames) : lower(colnames[j]) # n
    IN  colnames[last]

\* a variant that lets the first matching column win, whatever its alias
guess_by_column(colnames, names) ==
    LET hits == {i \in 1..Len(colnames) :
                    \E k \in 1..Len(names) : names[k] = lower(colnames[i])}
    IN  IF hits = {} THEN None
        ELSE Some(colnames[CHOOSE i \in hits : \A j \in hits : i <= j])

\* app.py 91-95
RECURSIVE guess(_, _)
guess(colnames, names) ==
    IF names = <<>> THEN None
    ELSE IF Head(names) \in LowKeys(colnames)
         THEN Some(LowGet(colnames, Head(names)))
         ELSE guess(colnames, Tail(names))

\* app.py 97-105
Guesses(colnames) == [r \in Roles |-> guess(colnames, Aliases[r])]

NONE == "<none>"

\* app.py 108-117: the options a role's selectbox offers
Options(colnames, r) ==
    IF r \in OptionalRoles THEN <<NONE>> \o colnames ELSE colnames

\* list.index(v): the first position of v
IndexOf(seq, v) == CHOOSE i \in 1..Len(seq) :
                      seq[i] = v /\ \A j \in 1..(i - 1) : seq[j] # v

\* a variant that falls back on the first real column for every role
DefaultFirstColumn(colnames, gs, r) ==
    IF gs[r] # None THEN gs[r][1] ELSE colnames[1]

\* app.py 108-117: the option a selectbox shows before the user touches it
DefaultChoice(colnames, gs, r) ==
    LET opt == Options(colnames, r)
    IN  IF gs[r] # None THEN opt[IndexOf(opt, gs[r][1])] ELSE opt[1]

\* ------------------------------------------------------------------------
\* Normalisation (app.py 137-166)
\* ------------------------------------------------------------------------
\* DataFrame.rename(columns=mapping): every column whose name is a key of the
\* mapping takes the mapped name, all at once
rename(df, mapping) ==
    Table([j \in 1..Len(df.cols) |->
             Column(IF df.cols[j].name \in DOMAIN mapping
                    THEN mapping[df.cols[j].name]
                    ELSE df.cols[j].name,
                    df.cols[j].vals)], df.n)

\* df[name] = vals: replaces the column of that name, or appends a new one
SetColumn(df, name, vals) ==
    IF HasColumn(df, name)
    THEN Table([j \in 1..Len(df.cols) |->
                  IF df.cols[j].name = name THEN Column(name, vals)
                  ELSE df.cols[j]], df.n)
    ELSE Table(Append(df.cols, Column(name, vals)), df.n)

\* df[name], for a name that names exactly one column
GetColumn(df, name) == df.cols[CHOOSE j \in Positions(df, name) : TRUE].vals

AllNaN(n) == [r \in 1..n |-> NaN]

\* pd.to_numeric of one text, errors="coerce"
to_numeric(s) == IF IsDecimalLiteral(s) THEN ParseDecimal(s) ELSE NaN

\* the dtype of pd.to_numeric's result: int64 when every value is an int,
\* float64 as soon as one is NaN or a float
NumericDtype(vals) ==
    IF \E i \in 1..Len(vals) : vals[i].k # "int"
    THEN [i \in 1..Len(vals) |->
            IF vals[i].k = "int" THEN F64(vals[i].a, 1) ELSE vals[i]]
    ELSE vals

\* app.py 155-156
to_num(vals) ==
    NumericDtype([i \in 1..Len(vals) |-> to_numeric(remove_commas(str(vals[i])))])

\* a variant that divides by the units as they are: x / 0 is infinite
RevPerUnitUnguarded(revenue, units) ==
    IF isna(revenue) \/ isna(units) THEN NaN
    ELSE IF IsZero(units) THEN Cell("float", "inf", 1, 0, 0)
    ELSE LET p == revenue.a * units.b
             q == revenue.b * units.a
         IN  IF q < 0 THEN F64(-p, -q) ELSE F64(p, q)

\* app.py 164: Revenue / Units_Sold.replace(0, np.nan), one row
RevPerUnit(revenue, units) ==
    IF isna(revenue) \/ isna(units) \/ IsZero(units) THEN NaN
    ELSE LET p == revenue.a * units.b
             q == revenue.b * units.a
         IN  IF q < 0 THEN F64(-p, -q) ELSE F64(p, q)

\* app.py 137-148: the renames, the four mandatory roles at once and then
\* each mapped optional role
Renamed(df, m) ==
    LET r0 == rename(df, (m.company :> "Company") @@ (m.region :> "Region")
                         @@ (m.units :> "Units_Sold") @@ (m.revenue :> "Revenue"))
        r1 == IF m.date # NONE THEN rename(r0, m.date :> "Date") ELSE r0
        r2 == IF m.share # NONE THEN rename(r1, m.share :> "Market_Share_%") ELSE r1
    IN  IF m.csat # NONE THEN rename(r2, m.csat :> "Customer_Satisfaction_%") ELSE r2

\* app.py 151-153: the optional columns that are created when missing
EnsuredColumns == <<"Market_Share_%", "Customer_Satisfaction_%">>

\* a variant that creates a missing Date column as well
EnsureWithDate(df, names) ==
    LET add(d, name) == IF HasColumn(d, name) THEN d
                        ELSE SetColumn(d, name, AllNaN(d.n))
    IN  add(add(add(df, "Date"), "Market_Share_%"), "Customer_Satisfaction_%")

RECURSIVE Ensure(_, _)
Ensure(df, names) ==
    IF names = <<>> THEN df
    ELSE Ensure(IF HasColumn(df, Head(names)) THEN df
                ELSE SetColumn(df, Head(names), AllNaN(df.n)),
                Tail(names))

\* the columns app.py 158-166 reads by name: a name borne by two columns
\* selects a DataFrame, on which the conversion raises
ReadByName == {"Date", "Units_Sold", "Revenue", "Market_Share_%",
               "Customer_Satisfaction_%"}

\* work.get(name, np.nan) through to_num, as assigned back to work[name]: a
\* missing column is the scalar NaN, which aligns to an all-NaN column
NumColumn(df, name) ==
    IF HasColumn(df, name) THEN to_num(GetColumn(df, name)) ELSE AllNaN(df.n)

\* v handed on to the next step Op, as a value computed once
Then(v, Op(_)) == CHOOSE r \in {Op(w) : w \in {v}} : TRUE

\* app.py 158-159
CoerceDate(w) ==
    IF HasColumn(w, "Date")
    THEN SetColumn(w, "Date", [r \in 1..w.n |-> to_datetime(GetColumn(w, "Date")[r])])
    ELSE w

\* app.py 160
CoerceUnits(w) == SetColumn(w, "Units_Sold", NumColumn(w, "Units_Sold"))

\* app.py 161
CoerceRevenue(w) == SetColumn(w, "Revenue", NumColumn(w, "Revenue"))

\* app.py 162
CoerceShare(w) ==
    SetColumn(w, "Market_Share_%", to_num(GetColumn(w, "Market_Share_%")))

\* app.py 163
CoerceCsat(w) ==
    SetColumn(w, "Customer_Satisfaction_%",
              to_num(GetColumn(w, "Customer_Satisfaction_%")))

\* app.py 164
DeriveRevPerUnit(w) ==
    SetColumn(w, "Rev_per_Unit",
        [r \in 1..w.n |->
            RevPerUnit(GetColumn(w, "Revenue")[r], GetColumn(w, "Units_Sold")[r])])

\* app.py 165-166
DeriveMonth(w) ==
    IF HasColumn(w, "Date")
    THEN SetColumn(w, "Month", [r \in 1..w.n |-> to_month(GetColumn(w, "Date")[r])])
    ELSE w

\* app.py 158-166, on a table whose columns read by name are single
Coerce(w) ==
    IF \E name \in ReadByName : Cardinality(Positions(w, name)) > 1
    THEN Raised
    ELSE Then(Then(Then(Then(Then(Then(CoerceDate(w), CoerceUnits), CoerceRevenue),
                             CoerceShare), CoerceCsat), DeriveRevPerUnit), DeriveMonth)

\* app.py 137-166: the normalised table of df_raw under the mapping m
Normalize(df, m) == Then(Ensure(Renamed(df, m), EnsuredColumns), Coerce)

\* ------------------------------------------------------------------------
\* Filters (app.py 172-180)
\* ------------------------------------------------------------------------
\* app.py 172: sorted(pd.Series(series).dropna().unique().tolist()), as the
\* set of its values; sorted() raises on values of kinds Python cannot order
Present(vals) == {vals[r] : r \in {i \in 1..Len(vals) : ~isna(vals[i])}}

Orderable(vs) ==
    \/ \A v \in vs : v.k = "str"
    \/ \A v \in vs : IsNumber(v)
    \/ \A v \in vs : v.k = "ts"

\* work[name] can be passed to uniq: one column of that name, of values that sort
UniqOk(df, name) ==
    /\ Cardinality(Positions(df, name)) = 1
    /\ Orderable(Present(GetColumn(df, name)))

uniq(df, name) == Present(GetColumn(df, name))

\* Series.isin(selection), one row
isin(v, selection) == ~isna(v) /\ v \in selection

\* app.py 178-179: mask is the Python scalar True when both selections are
\* empty, a boolean Series otherwise
MaskIsScalar(sc, sr) == sc = {} /\ sr = {}

MaskRows(df, sc, sr) ==
    {r \in 1..df.n :
        /\ (IF sc # {} THEN isin(GetColumn(df, "Company")[r], sc) ELSE TRUE)
        /\ (IF sr # {} THEN isin(GetColumn(df, "Region")[r], sr) ELSE TRUE)}

\* df.loc[mask] for a boolean Series: the rows where it is True, in order
TakeRows(df, rows) ==
    Table([j \in 1..Len(df.cols) |->
             Column(df.cols[j].name, SeqFilter(df.cols[j].vals, rows))],
          Cardinality(rows))

\* app.py 180: work.loc[mask].copy(); .loc with the scalar True on a table
\* whose index is not boolean raises KeyError
Filtered(df, sc, sr) ==
    IF MaskIsScalar(sc, sr) THEN Raised ELSE TakeRows(df, MaskRows(df, sc, sr))

\* ------------------------------------------------------------------------
\* File discovery and header detection (app.py 16-50)
\* ------------------------------------------------------------------------
\* app.py 16
DEFAULT_FILE == "jl25pg108_mohak_srivastava.xlsx"

\* os.path.basename
RECURSIVE basename(_)
basename(p) ==
    IF \E i \in 1..Len(p) : CharAt(p, i) = "/"
    THEN basename(SubSeq(p, 1 + (CHOOSE i \in 1..Len(p) : CharAt(p, i) = "/"), Len(p)))
    ELSE p

Range(seq) == {seq[i] : i \in 1..Len(seq)}

\* app.py 17: the globbed names that are not Excel lock files
Cands(names) ==
    SeqFilter(names, {i \in 1..Len(names) : ~startswith(basename(names[i]), "~$")})

\* app.py 41: how many leading rows are tried as the header
HeaderCandidates == 8

\* app.py 49: the largest header row the number input accepts
MaxHeaderInput == 50

\* min(scores)
SeqMin(seq) == CHOOSE v \in Range(seq) : \A u \in Range(seq) : v <= u

\* a variant that breaks ties towards the last candidate
AutoHeaderLast(sc, op) ==
    IF op # <<>>
    THEN op[CHOOSE i \in 1..Len(sc) :
                sc[i] = SeqMin(sc) /\ \A j \in 1..Len(sc) : sc[j] = sc[i] => j <= i]
    ELSE 0

\* app.py 48
AutoHeader(sc, op) == IF op # <<>> THEN op[IndexOf(sc, SeqMin(sc))] ELSE 0

\* app.py 43, 53: load_with_header on the sheet; bad is the set of header
\* rows at which this run's read raises
TryLoad(ws, bad, hr) == IF hr \in bad THEN Raised ELSE load_with_header(ws, hr)

\* ------------------------------------------------------------------------
\* The run of the script
\* ------------------------------------------------------------------------
VARIABLES
    files,          \* glob.glob("*.xlsx"), in the order the directory gives
    book,           \* the worksheets stored in the workbook file
    flaky,          \* the header rows at which reading the sheet raises
    pc,             \* the stage the script is at
    halt,           \* why the script ended at that stage ("" while it runs)
    EXCEL_FILE, xls, sheet,
    h, scores, opts, auto_header, header_row,
    df_raw, cols, g,
    explicit,       \* the roles whose selectbox the user has set
    date_col, company_col, region_col, units_col, rev_col, share_col, csat_col,
    work, companies, regions, sel_companies, sel_regions, f,
    csv             \* the table handed to the download button

envVars == <<files, book, flaky>>
fileVars == <<EXCEL_FILE, xls, sheet>>
scanVars == <<h, scores, opts>>
headerVars == <<auto_header, header_row>>
mapVars == <<explicit, date_col, company_col, region_col, units_col, rev_col,
             share_col, csat_col>>
filterVars == <<companies, regions, sel_companies, sel_regions>>
vars == <<envVars, pc, halt, fileVars, scanVars, headerVars, df_raw, cols, g,
          mapVars, work, filterVars, f, csv>>

NoTable == Raised

\* the worksheet the user chose
raw0 == xls[sheet]

\* the seven selectbox values as one mapping
Mapping ==
    [date |-> date_col, company |-> company_col, region |-> region_col,
     units |-> units_col, revenue |-> rev_col, share |-> share_col,
     csat |-> csat_col]

\* a variant that leaves the revenue box out of the comparison
required_without_revenue == <<company_col, region_col, units_col>>

\* app.py 129
required == <<company_col, region_col, units_col, rev_col>>

\* the most roles the user sets by hand in one run
MaxOverrides == 1

\* the values every variable has before the script assigns it
Unassigned ==
    /\ pc = "find" /\ halt = ""
    /\ EXCEL_FILE = "" /\ xls = <<>> /\ sheet = 0
    /\ h = 0 /\ scores = <<>> /\ opts = <<>>
    /\ auto_header = 0 /\ header_row = 0
    /\ df_raw = NoTable /\ cols = <<>> /\ g = [r \in Roles |-> None]
    /\ explicit = {}
    /\ date_col = "" /\ company_col = "" /\ region_col = "" /\ units_col = ""
    /\ rev_col = "" /\ share_col = "" /\ csat_col = ""
    /\ work = NoTable /\ companies = {} /\ regions = {}
    /\ sel_companies = {} /\ sel_regions = {} /\ f = NoTable /\ csv = NoTable

\* the script is still running
Running == halt = ""

\* st.stop() after an error message: the run ends at the stage it is in
Stop(why) == pc' = pc /\ halt' = why

\* an exception no handler catches ends the run at the stage it is in
Crash == pc' = pc /\ halt' = "exception"

\* app.py 17-25
FindFile ==
    /\ Running /\ pc = "find"
    /\ LET cands == Cands(files)
       IN  IF DEFAULT_FILE \in Range(cands)
           THEN EXCEL_FILE' = DEFAULT_FILE /\ pc' = "open" /\ halt' = halt
           ELSE IF cands # <<>>
           THEN EXCEL_FILE' = cands[1] /\ pc' = "open" /\ halt' = halt
           ELSE Stop("no_file") /\ EXCEL_FILE' = EXCEL_FILE
    /\ UNCHANGED <<envVars, xls, sheet, scanVars, headerVars, df_raw, cols, g,
                   mapVars, work, filterVars, f, csv>>

\* app.py 30-31, 39-40: open the workbook, the user picks a sheet
OpenWorkbook ==
    /\ Running /\ pc = "open"
    /\ xls' = book
    /\ \E s \in 1..Len(book) : sheet' = s
    /\ h' = 0 /\ scores' = <<>> /\ opts' = <<>>
    /\ pc' = "scan"
    /\ UNCHANGED <<envVars, halt, EXCEL_FILE, headerVars, df_raw, cols, g,
                   mapVars, work, filterVars, f, csv>>

\* app.py 41-47: one turn of the loop over the header candidates
ScanHeader ==
    /\ Running /\ pc = "scan"
    /\ h < Min(HeaderCandidates, Len(raw0))
    /\ \E d \in {TryLoad(raw0, flaky, h)} :
           IF d.ok
           THEN scores' = Append(scores, NoiseScore(d)) /\ opts' = Append(opts, h)
           ELSE UNCHANGED <<scores, opts>>
    /\ h' = h + 1
    /\ UNCHANGED <<envVars, pc, halt, fileVars, headerVars, df_raw, cols, g,
                   mapVars, work, filterVars, f, csv>>

\* app.py 48-50: the automatic header row, which the user may replace by any
\* row the input accepts (a row past the sheet's last stands for all of them)
PickHeader ==
    /\ Running /\ pc = "scan"
    /\ h >= Min(HeaderCandidates, Len(raw0))
    /\ auto_header' = AutoHeader(scores, opts)
    /\ \E hr \in 0..Min(MaxHeaderInput, Len(raw0)) : header_row' = hr
    /\ pc' = "load"
    /\ UNCHANGED <<envVars, halt, fileVars, scanVars, df_raw, cols, g,
                   mapVars, work, filterVars, f, csv>>

\* app.py 53-56
LoadClean ==
    /\ Running /\ pc = "load"
    /\ \E d \in {TryLoad(raw0, flaky, header_row)} :
           IF d.ok
           THEN df_raw' = Cleanup(d) /\ pc' = "repair" /\ halt' = halt
           ELSE Crash /\ df_raw' = df_raw
    /\ UNCHANGED <<envVars, fileVars, scanVars, headerVars, cols, g,
                   mapVars, work, filterVars, f, csv>>

\* app.py 71-77
RepairStep ==
    /\ Running /\ pc = "repair"
    /\ df_raw' = AutoRepair(raw0, df_raw)
    /\ pc' = "check"
    /\ UNCHANGED <<envVars, halt, fileVars, scanVars, headerVars, cols, g,
                   mapVars, work, filterVars, f, csv>>

\* app.py 84: the fewest columns a data table has
MinColumns == 4

\* a variant that lets every table through
CheckColumnsLenient ==
    /\ Running /\ pc = "check"
    /\ cols' = columns(df_raw)
    /\ pc' = "guess" /\ halt' = halt
    /\ UNCHANGED <<envVars, fileVars, scanVars, headerVars, df_raw, g,
                   mapVars, work, filterVars, f, csv>>

\* app.py 83-86
CheckColumns ==
    /\ Running /\ pc = "check"
    /\ cols' = columns(df_raw)
    /\ IF Len(columns(df_raw)) < MinColumns
       THEN Stop("not_a_table")
       ELSE pc' = "guess" /\ halt' = halt
    /\ UNCHANGED <<envVars, fileVars, scanVars, headerVars, df_raw, g,
                   mapVars, work, filterVars, f, csv>>

\* app.py 97-105
GuessRoles ==
    /\ Running /\ pc = "guess"
    /\ g' = Guesses(cols)
    /\ pc' = "map"
    /\ UNCHANGED <<envVars, halt, fileVars, scanVars, headerVars, df_raw, cols,
                   mapVars, work, filterVars, f, csv>>

\* the values a selectbox can return: any option when the user sets it, its
\* default otherwise
Choices(ov, r) ==
    IF r \in ov THEN Range(Options(cols, r)) ELSE {DefaultChoice(cols, g, r)}

\* app.py 107-126: the seven selectboxes (the locals().get() lines find the
\* names already bound and change nothing)
MapColumns ==
    /\ Running /\ pc = "map"
    /\ \E ov \in {S \in SUBSET Roles : Cardinality(S) <= MaxOverrides} :
         /\ explicit' = ov
         /\ \E v \in Choices(ov, "date") : date_col' = v
         /\ \E v \in Choices(ov, "company") : company_col' = v
         /\ \E v \in Choices(ov, "region") : region_col' = v
         /\ \E v \in Choices(ov, "units") : units_col' = v
         /\ \E v \in Choices(ov, "revenue") : rev_col' = v
         /\ \E v \in Choices(ov, "share") : share_col' = v
         /\ \E v \in Choices(ov, "csat") : csat_col' = v
    /\ pc' = "validate"
    /\ UNCHANGED <<envVars, halt, fileVars, scanVars, headerVars, df_raw, cols, g,
                   work, filterVars, f, csv>>

\* app.py 129-132
Validate ==
    /\ Running /\ pc = "validate"
    /\ IF Cardinality(Range(required)) # Len(required)
       THEN Stop("duplicate_mapping")
       ELSE pc' = "normalize" /\ halt' = halt
    /\ UNCHANGED <<envVars, fileVars, scanVars, headerVars, df_raw, cols, g,
                   mapVars, work, filterVars, f, csv>>

\* app.py 137-166
NormalizeStep ==
    /\ Running /\ pc = "normalize"
    /\ \E w \in {Normalize(df_raw, Mapping)} :
           IF w.ok
           THEN work' = w /\ pc' = "filters" /\ halt' = halt
           ELSE Crash /\ work' = work
    /\ UNCHANGED <<envVars, fileVars, scanVars, headerVars, df_raw, cols, g,
                   mapVars, filterVars, f, csv>>

\* app.py 172-176: the filter options and the user's selections (all options
\* unless the user removes some)
Filters ==
    /\ Running /\ pc = "filters"
    /\ IF UniqOk(work, "Company") /\ UniqOk(work, "Region")
       THEN /\ companies' = uniq(work, "Company")
            /\ regions' = uniq(work, "Region")
            /\ \E sc \in SUBSET uniq(work, "Company") : sel_companies' = sc
            /\ \E sr \in SUBSET uniq(work, "Region") : sel_regions' = sr
            /\ pc' = "mask" /\ halt' = halt
       ELSE Crash /\ UNCHANGED filterVars
    /\ UNCHANGED <<envVars, fileVars, scanVars, headerVars, df_raw, cols, g,
                   mapVars, work, f, csv>>

\* app.py 178-180
ApplyFilter ==
    /\ Running /\ pc = "mask"
    /\ \E t \in {Filtered(work, sel_companies, sel_regions)} :
           IF t.ok
           THEN f' = t /\ pc' = "export" /\ halt' = halt
           ELSE Crash /\ f' = f
    /\ UNCHANGED <<envVars, fileVars, scanVars, headerVars, df_raw, cols, g,
                   mapVars, work, filterVars, csv>>

\* app.py 248-252: the filtered table goes to the download button (the KPI
\* and chart code of lines 185-243 only reads f)
Export ==
    /\ Running /\ pc = "export"
    /\ csv' = f
    /\ pc' = "done"
    /\ UNCHANGED <<envVars, halt, fileVars, scanVars, headerVars, df_raw, cols, g,
                   mapVars, work, filterVars, f>>

Next ==
    \/ FindFile \/ OpenWorkbook \/ ScanHeader \/ PickHeader \/ LoadClean
    \/ RepairStep \/ CheckColumns \/ GuessRoles \/ MapColumns \/ Validate
    \/ NormalizeStep \/ Filters \/ ApplyFilter \/ Export

\* ------------------------------------------------------------------------
\* The whole run, on a small set of workbooks
\* ------------------------------------------------------------------------
\* a sheet whose first row is the header
wsClean ==
    << <<Str("Date"), Str("Company"), Str("Region"), Str("Units"), Str("Revenue")>>,
       <<Str("2024-01-05"), Str("Acme"), Str("North"), I64(10), Str("1,200")>>,
       <<Str("n/a"), Str("Bolt"), Str("North"), I64(0), I64(500)>> >>

\* a title row above the header, an unnamed column, other spellings
wsTitled ==
    << <<Str("Report"), NaN, NaN, NaN, NaN, NaN>>,
       <<Str(" Brand "), Str("ZONE"), Str("Qty"), NaN, Str("Sales"), Str("Market Share %")>>,
       <<Str("Acme"), Str("North"), Str("3"), NaN, F64(5, 2), Str("40")>> >>

\* data from the first row on, with no header at all
wsHeaderless ==
    << <<Str("2024-01-05"), Str("Acme"), Str("North"), I64(10), I64(1200)>>,
       <<Str("2024-02-07"), Str("Bolt"), Str("South"), I64(4), I64(10)>> >>

\* too few columns to be a data table
wsNarrow ==
    << <<Str("Company"), Str("Region"), Str("Note")>>,
       <<Str("Acme"), Str("North"), NaN>> >>

\* labels that match no alias
wsPlain ==
    << <<Str("Name"), Str("Place"), Str("Count"), Str("Value")>>,
       <<Str("a"), Str("p"), Str("7"), Str("x")>> >>

Books == { <<wsClean>>, <<wsTitled, wsNarrow>>, <<wsHeaderless>>, <<wsPlain>> }

FileLists ==
    { <<>>, <<"~$sales.xlsx">>, <<"sales.xlsx", DEFAULT_FILE>>,
      <<"~$sales.xlsx", "sales.xlsx">> }

FlakySets == { {}, {0} }

Init ==
    /\ files \in FileLists
    /\ book \in Books
    /\ flaky \in FlakySets
    /\ Unassigned

Spec == Init /\ [][Next]_vars

\* two of the four mandatory roles point at the same column
C2_Collision ==
    \E r1, r2 \in {"company", "region", "units", "revenue"} :
        r1 # r2 /\ Mapping[r1] = Mapping[r2]

\* C2: the validation step ends the run in the duplicate-mapping error
\* exactly when two of the four mandatory roles point at the same column,
\* whichever two, and goes on to normalisation otherwise; a run so ended
\* stays at the validation stage with nothing normalised, filtered or
\* exported, and no later stage is ever reached with a collision.
C2_MappingValidation ==
    /\ [](/\ halt = "duplicate_mapping"
              => /\ C2_Collision /\ pc = "validate"
                 /\ work = NoTable /\ f = NoTable /\ csv = NoTable
          /\ pc \in {"normalize", "filters", "mask", "export", "done"}
              => ~C2_Collision)
    /\ [][(pc = "validate" /\ halt = "")
            => IF C2_Collision
               THEN pc' = "validate" /\ halt' = "duplicate_mapping"
               ELSE pc' = "normalize" /\ halt' = ""]_vars

\* units and revenue point at the same column, company and region do not:
\* the run ended in the duplicate-mapping error
C2_Witness ==
    /\ pc = "validate" /\ halt = "duplicate_mapping"
    /\ units_col = rev_col
    /\ Cardinality({company_col, region_col, units_col}) = 3
    /\ work = NoTable

\* the stages in their order
StageOrder ==
    <<"find", "open", "scan", "load", "repair", "check", "guess", "map",
      "validate", "normalize", "filters", "mask", "export", "done">>

Rank(stage) == CHOOSE i \in 1..Len(StageOrder) : StageOrder[i] = stage

\* the three structural checks, on the values the run has by then
C7_FileFound == \E i \in 1..Len(files) : ~startswith(basename(files[i]), "~$")
C7_EnoughColumns == Len(columns(df_raw)) >= 4
C7_Distinct == Cardinality({company_col, region_col, units_col, rev_col}) = 4

\* C7: every step moves to the next stage in the order file discovery,
\* header detection and cleanup, mapping, normalisation, filtering, export
\* (or stays in the header scan, or ends the run where it is); with no
\* workbook the run ends before anything is opened or loaded, with fewer
\* than 4 columns after cleanup and repair it ends before any role is
\* guessed or mapped, with colliding mandatory roles it ends before
\* normalisation; a run that has ended never takes another step; and
\* normalisation is reached only when all three checks passed.
C7_Halting ==
    /\ [](/\ halt = "no_file"
              => /\ pc = "find" /\ ~C7_FileFound
                 /\ xls = <<>> /\ df_raw = NoTable
          /\ Rank(pc) > Rank("find") => C7_FileFound
          /\ halt = "not_a_table"
              => /\ pc = "check" /\ ~C7_EnoughColumns
                 /\ g = [r \in Roles |-> None] /\ company_col = ""
          /\ Rank(pc) > Rank("check") => C7_EnoughColumns
          /\ halt = "duplicate_mapping"
              => pc = "validate" /\ ~C7_Distinct /\ work = NoTable
          /\ Rank(pc) >= Rank("normalize")
              => C7_FileFound /\ C7_EnoughColumns /\ C7_Distinct
          /\ work # NoTable => Rank(pc) > Rank("normalize")
          /\ f # NoTable => Rank(pc) > Rank("mask")
          /\ csv # NoTable => pc = "done")
    /\ [][/\ halt # "" => UNCHANGED vars
          /\ \/ Rank(pc') = Rank(pc) + 1 /\ halt' = ""
             \/ pc' = pc /\ pc = "scan" /\ halt' = ""
             \/ pc' = pc /\ halt' # ""
          /\ (pc = "find" /\ ~C7_FileFound) => halt' = "no_file"
          /\ (pc = "check" /\ ~C7_EnoughColumns) => halt' = "not_a_table"
          /\ (pc = "validate" /\ ~C7_Distinct) => halt' = "duplicate_mapping"]_vars

\* a sheet left with two columns ended the run before any role was guessed
C7_Witness ==
    /\ pc = "check" /\ halt = "not_a_table"
    /\ Len(cols) = 2
    /\ g = [r \in Roles |-> None]

\* the rows the claim lets through: Company in the company selection and
\* Region in the region selection, an empty selection letting every row pass
C4_Rows ==
    {r \in 1..work.n :
        /\ sel_companies = {} \/ GetColumn(work, "Company")[r] \in sel_companies
        /\ sel_regions = {} \/ GetColumn(work, "Region")[r] \in sel_regions}

\* C4: the filter step never fails, and the filtered table is the rows of
\* the normalised table whose Company and Region are in the selections, an
\* empty selection imposing no restriction, both empty included.
C4_Filtering ==
    /\ pc = "mask" => halt = ""
    /\ pc \in {"export", "done"} =>
          f = Table([j \in 1..Len(work.cols) |->
                       Column(work.cols[j].name,
                              SeqFilter(work.cols[j].vals, C4_Rows))],
                    Cardinality(C4_Rows))

\* the claim with one selection or both non-empty
C4_FilteringSomeSelected ==
    (sel_companies # {} \/ sel_regions # {}) => C4_Filtering

\* ------------------------------------------------------------------------
\* Header detection on sheets of every layout: rows of notes above the header
\* row, data rows below it
\* ------------------------------------------------------------------------
\* the most title rows that open the sheet
MaxPreamble == 6
\* the rows of mixed kinds that end the preamble
MaxMix == 2

\* a title row: three unnamed columns
rowTitle == <<Str("Report"), NaN, NaN, NaN>>
\* a row of notes: one name is a placeholder once stripped and lowercased
rowNote == <<Str("as of"), Str("2024"), Str(" UNNAMED: x"), Str("y")>>
\* header rows: all named, and one blank name
rowHeader == <<Str("Company"), Str("Region"), Str("Units"), Str("Revenue")>>
rowBlank == <<Str("Company"), Str("  "), Str("Units"), Str("Revenue")>>
\* data rows: complete, and one with an empty cell
rowFull == <<Str("Acme"), Str("North"), I64(10), I64(1200)>>
rowHoley == <<Str("Bolt"), NaN, I64(0), Str("1,200")>>

RECURSIVE SeqsUpTo(_, _)
\* the sequences over S of length at most n
SeqsUpTo(S, n) ==
    IF n = 0 THEN {<<>>}
    ELSE LET shorter == SeqsUpTo(S, n - 1)
         IN  shorter \cup {Append(q, e) : q \in shorter, e \in S}

DetectSheets ==
    {pre \o <<hd>> \o data :
        pre \in {[i \in 1..k |-> rowTitle] \o mix :
                    k \in 0..MaxPreamble,
                    mix \in SeqsUpTo({rowTitle, rowNote}, MaxMix)},
        hd \in {rowHeader, rowBlank},
        data \in {<<rowHoley>>, <<rowFull, rowHoley>>}}

InitDetect ==
    /\ files = <<DEFAULT_FILE>>
    /\ \E ws \in DetectSheets : book = <<ws>>
    /\ flaky \in FlakySets
    /\ Unassigned

NextDetect == FindFile \/ OpenWorkbook \/ ScanHeader \/ PickHeader

SpecDetect == InitDetect /\ [][NextDetect]_vars

\* the names of header row k once stripped, and its noise-score: the names
\* that are empty or start with "unnamed" in any case
C1_Noise(k) ==
    LET d == read_excel(raw0, k)
        names == [j \in 1..Len(d.cols) |-> strip(d.cols[j].name)]
    IN  Cardinality({j \in 1..Len(names) :
            \/ names[j] = ""
            \/ /\ Len(names[j]) >= 7
               /\ lower(SubSeq(names[j], 1, 7)) = "unnamed"})

\* the header rows that compete, each with its noise-score: the first
\* min(8, rows) whose load succeeds
C1_Candidates ==
    {<<k, C1_Noise(k)>> : k \in {i \in 0..(Min(8, Len(raw0)) - 1) :
                                    i \notin flaky}}

\* C1: once the header row is picked automatically, it is a candidate that
\* loaded, no candidate has a lower noise-score, and no candidate with the
\* same noise-score has a lower row index; rows whose load raised and rows
\* past the first eight never compete.
C1_HeaderDetection ==
    pc = "load" =>
        \E cands \in {C1_Candidates} :
            cands # {} =>
                \E best \in cands :
                    /\ best[1] = auto_header
                    /\ \A c \in cands :
                          /\ best[2] <= c[2]
                          /\ c[2] = best[2] => best[1] <= c[1]

\* the scores [3, 1, 1] of rows 0, 1, 2 pick row 1
C1_Witness ==
    /\ pc = "load"
    /\ opts = <<0, 1, 2>> /\ scores = <<3, 1, 1>>
    /\ auto_header = 1

\* ------------------------------------------------------------------------
\* Auto-repair on sheets whose first row mixes labels and data
\* ------------------------------------------------------------------------
\* the most ordinary columns of a sheet
MaxWidth == 8

\* the label a first-row cell carries at position j, and the data it carries
\* instead when the sheet has no header row
LabelAt(j) ==
    Str(<<"Company", "Region", "Units", "12a", "Rev,enue", "x", "Share",
          "y z", "Csat", "w">>[j])
DataAt(j) ==
    <<Str("2024-01-05"), Str("1,200"), I64(42), F64(7, 2), Str("2023-12-31"),
      I64(0), Str("3.5"), Str("9"), I64(5), Str("1,0")>>[j]

\* one more column put in front of the ordinary ones, as its two cells: none,
\* fully empty, named but empty below its name, unnamed but filled
SpecialColumns ==
    { <<>>, <<NaN, NaN>>, <<Str("Notes"), NaN>>, <<NaN, Str("n")>> }

\* the two-row sheets: a first row whose cells are labels at the positions
\* in lab and data elsewhere, and one row below it
RepairSheets ==
    { << (IF sp = <<>> THEN <<>> ELSE <<sp[1]>>)
            \o [j \in 1..w |-> IF j \in lab THEN LabelAt(j) ELSE DataAt(j)],
         (IF sp = <<>> THEN <<>> ELSE <<sp[2]>>)
            \o [j \in 1..w |-> Str("v")] >> :
        w \in 2..MaxWidth, lab \in SUBSET (1..MaxWidth), sp \in SpecialColumns }

InitRepair ==
    /\ files = <<DEFAULT_FILE>>
    /\ \E ws \in RepairSheets : book = <<ws>>
    /\ flaky = {}
    /\ Unassigned

NextRepair ==
    \/ FindFile \/ OpenWorkbook \/ ScanHeader \/ PickHeader
    \/ LoadClean \/ RepairStep \/ CheckColumns

SpecRepair == InitRepair /\ [][NextRepair]_vars

\* the canonical names, in the order the repair assigns them
C10_Names ==
    <<"Date", "Company", "Region", "Units_Sold", "Revenue", "Market_Share_%",
      "Customer_Satisfaction_%">>

\* at least 3 of the first 7 names of the cleaned table parse as a date or,
\* commas removed, as a number
C10_Taken ==
    LET names == columns(df_raw)
    IN  \E S \in SUBSET (1..Min(7, Len(names))) :
            /\ Cardinality(S) = 3
            /\ \A j \in S :
                  \/ IsIsoDate(names[j])
                  \/ IsDecimalLiteral(remove_commas(names[j]))

\* the sheet read with no header row: its columns that are not fully empty,
\* the leading min(7, ...) of them, named positionally
C10_Reloaded ==
    LET filled == SeqFilter([j \in 1..Width(raw0) |-> j],
                            {j \in 1..Width(raw0) :
                                \E r \in 1..Len(raw0) : ~isna(raw0[r][j])})
        k == Min(7, Len(filled))
    IN  Table([i \in 1..k |->
                 Column(C10_Names[i],
                        InferDtype([r \in 1..Len(raw0) |-> raw0[r][filled[i]]]))],
              Len(raw0))

\* C10: the repair step replaces the cleaned table by the reloaded sheet
\* (no header row, fully-empty columns dropped, the leading min(7, remaining)
\* columns named positionally, the others discarded) if and only if at least
\* 3 of the first 7 cleaned column names parse as a date or a number, and
\* leaves the cleaned table unchanged otherwise.
C10_AutoRepair ==
    [][(pc = "repair" /\ pc' = "check") =>
          IF C10_Taken THEN df_raw' = C10_Reloaded ELSE df_raw' = df_raw]_vars

\* a sheet of nine filled columns was repaired: seven are kept and renamed
C10_Witness ==
    /\ pc = "check" /\ header_row = 0
    /\ Width(raw0) = 9
    /\ columns(df_raw) = C10_Names
    /\ df_raw.n = 2

\* ------------------------------------------------------------------------
\* Column mapping on sheets with headers of many spellings and orders
\* ------------------------------------------------------------------------
\* the orders of a list of names
Orders(names) ==
    {[i \in 1..Len(names) |-> names[p[i]]] : p \in Permutations(1..Len(names))}

HeaderLists ==
    Orders(<<"Company", "Region", "Sales", "Revenue">>)
    \cup Orders(<<"Brand", "Market Share %", "market_share_%", "Qty">>)
    \cup Orders(<<"Date", "PERIOD", "When", "Amount">>)
    \cup Orders(<<"State", "Area", "CSAT", "Units">>)
    \cup { <<"Company", "Region", "Units", "Sales", "Revenue", "Market Share %">>,
           <<"Player", "Zone", "Quantity", "Turnover", "Share", "Month">>,
           <<"Name", "Place", "Count", "Value", "Score">>,
           <<"company", "COMPANY", "Region", "Units", "Revenue">> }

\* a sheet with a row of headers and one row of data
OneRowSheet(names) ==
    << [j \in 1..Len(names) |-> Str(names[j])],
       [j \in 1..Len(names) |-> I64(j)] >>

\* no header is a date alias; five of the six cells of "When" are dates
wsWhen ==
    << <<Str("Company"), Str("Region"), Str("Units"), Str("Revenue"), Str("When")>>,
       <<Str("Acme"), Str("North"), I64(1), I64(10), Str("2024-01-05")>>,
       <<Str("Acme"), Str("South"), I64(2), I64(20), Str("2024-02-05")>>,
       <<Str("Bolt"), Str("North"), I64(3), I64(30), Str("2024-03-05")>>,
       <<Str("Bolt"), Str("South"), I64(4), I64(40), Str("n/a")>>,
       <<Str("Core"), Str("North"), I64(5), I64(50), Str("2024-05-05")>>,
       <<Str("Core"), Str("South"), I64(6), I64(60), Str("2024-06-05")>> >>

MapSheets == {OneRowSheet(names) : names \in HeaderLists} \cup {wsWhen}

InitMap ==
    /\ files = <<DEFAULT_FILE>>
    /\ \E ws \in MapSheets : book = <<ws>>
    /\ flaky = {}
    /\ Unassigned

NextMap ==
    \/ FindFile \/ OpenWorkbook \/ ScanHeader \/ PickHeader
    \/ LoadClean \/ RepairStep \/ CheckColumns
    \/ GuessRoles \/ MapColumns \/ Validate

SpecMap == InitMap /\ [][NextMap]_vars

\* the alias dictionary, each role's aliases in their listed order
C8_Aliases ==
    [date    |-> <<"date", "order date", "month", "period">>,
     company |-> <<"company", "brand", "player">>,
     region  |-> <<"region", "zone", "area", "state">>,
     units   |-> <<"units_sold", "units", "quantity", "qty">>,
     revenue |-> <<"revenue", "sales", "amount", "net sales", "turnover">>,
     share   |-> <<"market_share_%", "market share %", "market share", "share">>,
     csat    |-> <<"customer_satisfaction_%", "csat", "satisfaction %",
                   "customer satisfaction %">>]

\* the positions, in role r's alias list, of the aliases that are among the
\* lowercased column names low
C8_Matches(r, low) ==
    {k \in 1..Len(C8_Aliases[r]) : \E i \in 1..Len(low) : low[i] = C8_Aliases[r][k]}

\* C8: once the roles are guessed, every role with no alias equal to a
\* lowercased column name has no guess, and every other role's guess is a
\* column whose lowercased name is the first alias, in listed order, that
\* equals some lowercased column name; a role the user leaves alone resolves
\* to its guess.
C8_AliasMatching ==
    /\ pc = "map" =>
        LET low == [i \in 1..Len(cols) |-> lower(cols[i])]
        IN  \A r \in Roles :
                IF C8_Matches(r, low) = {}
                THEN g[r] = None
                ELSE /\ g[r] # None
                     /\ \E i \in 1..Len(cols) :
                           /\ cols[i] = g[r][1]
                           /\ \E k \in C8_Matches(r, low) :
                                 /\ \A m \in C8_Matches(r, low) : k <= m
                                 /\ low[i] = C8_Aliases[r][k]
    /\ pc = "validate" =>
        \A r \in Roles : (r \notin explicit /\ g[r] # None) => Mapping[r] = g[r][1]

\* "Sales" stands before "Revenue" and the share column is spelt with
\* blanks: revenue resolves to "Revenue", share to "Market Share %"
C8_Witness ==
    /\ pc = "validate" /\ explicit = {}
    /\ cols = <<"Company", "Region", "Units", "Sales", "Revenue", "Market Share %">>
    /\ rev_col = "Revenue"
    /\ share_col = "Market Share %"

\* the columns of the cleaned table of which fewer than one value in five
\* fails to parse as a date, each with its count of failures
C6_Qualifying ==
    {<<j, Cardinality({r \in 1..df_raw.n : isna(to_datetime(df_raw.cols[j].vals[r]))})>> :
        j \in {i \in 1..Len(df_raw.cols) :
                 /\ df_raw.n > 0
                 /\ 5 * Cardinality({r \in 1..df_raw.n :
                                        isna(to_datetime(df_raw.cols[i].vals[r]))})
                      < df_raw.n}}

\* the claim as stated: with no date alias among the names, the date role is
\* a qualifying column with the fewest failures
C6_DateFallback ==
    (pc = "validate" /\ g["date"] = None /\ "date" \notin explicit
        /\ C6_Qualifying # {}) =>
        \E q \in C6_Qualifying :
            /\ date_col = cols[q[1]]
            /\ \A o \in C6_Qualifying : q[2] <= o[2]

\* C6: with no date alias among the names and the date box left alone, the
\* date role is unmapped, whatever the columns hold.
C6_NoDateFallback ==
    (pc = "validate" /\ g["date"] = None /\ "date" \notin explicit) =>
        date_col = NONE

\* a column of which five values in six are dates is not taken as the date
C6_Witness ==
    /\ pc = "validate" /\ g["date"] = None /\ "date" \notin explicit
    /\ \E q \in C6_Qualifying : cols[q[1]] = "When" /\ q[2] = 1
    /\ date_col = NONE

\* ------------------------------------------------------------------------
\* Normalisation on sheets with texts, numbers and gaps in every column
\* ------------------------------------------------------------------------
NormHeaders ==
    { <<"Company", "Region", "Units", "Revenue", "When", "Market_Share_%">>,
      <<"Brand", "Zone", "Qty", "Sales", "Date", "Csat">> }

\* the units, revenue and date cells of the first data row
NormCells ==
    { <<Str("0"), Str("1,200"), Str("2024-01-05")>>,
      <<I64(0), F64(5, 2), Str("n/a")>>,
      <<NaN, I64(10), Str("n/a")>>,
      <<Str("3"), NaN, NaN>>,
      <<Str("2.5"), Str("1,200"), Str("2024-01-05")>>,
      <<Str("abc"), Str("1,2,0.5"), Str("2024-13-01")>>,
      <<Str("-4"), F64(1, 4), Str("2023-02-28")>> }

NormSheets ==
    { << [j \in 1..Len(hd) |-> Str(hd[j])],
         <<Str("Acme"), Str("North"), c[1], c[2], c[3], Str("40")>>,
         <<Str("Bolt"), Str("South"), I64(4), I64(500), Str("2024-03-09"), I64(55)>> >> :
        hd \in NormHeaders, c \in NormCells }

InitNormalize ==
    /\ files = <<DEFAULT_FILE>>
    /\ \E ws \in NormSheets : book = <<ws>>
    /\ flaky = {}
    /\ Unassigned

NextNormalize ==
    \/ FindFile \/ OpenWorkbook \/ ScanHeader \/ PickHeader
    \/ LoadClean \/ RepairStep \/ CheckColumns
    \/ GuessRoles \/ MapColumns \/ Validate \/ NormalizeStep

SpecNormalize == InitNormalize /\ [][NextNormalize]_vars

\* the normalised table exists
C_Normalized == pc = "filters"

\* C3: in the normalised table, a row whose Units_Sold is zero or null has a
\* null Rev_per_Unit, and any other row has Rev_per_Unit = Revenue /
\* Units_Sold (null when Revenue is null); a row read from revenue "1,200"
\* and units "0" has Revenue 1200 and a null Rev_per_Unit.
C3_RevPerUnit ==
    C_Normalized =>
        \A r \in 1..work.n :
            LET u == GetColumn(work, "Units_Sold")[r]
                v == GetColumn(work, "Revenue")[r]
                q == GetColumn(work, "Rev_per_Unit")[r]
            IN  /\ IF isna(u) \/ (IsNumber(u) /\ u.a = 0) THEN isna(q)
                   ELSE IF isna(v) THEN isna(q)
                   ELSE /\ IsNumber(q) /\ q.b # 0
                        /\ q.a * (v.b * u.a) = q.b * (v.a * u.b)
                /\ (/\ explicit = {} /\ header_row = 0
                    /\ GetColumn(df_raw, rev_col)[r] = Str("1,200")
                    /\ GetColumn(df_raw, units_col)[r] = Str("0"))
                   => (IsNumber(v) /\ v.a = 1200 * v.b /\ isna(q))

\* revenue "1,200" over units "0": Revenue is 1200, Rev_per_Unit is null
C3_Witness ==
    /\ C_Normalized /\ explicit = {} /\ header_row = 0
    /\ GetColumn(df_raw, rev_col)[1] = Str("1,200")
    /\ GetColumn(df_raw, units_col)[1] = Str("0")
    /\ GetColumn(work, "Revenue")[1] = I64(1200)
    /\ isna(GetColumn(work, "Rev_per_Unit")[1])
    /\ GetColumn(work, "Rev_per_Unit")[2] = F64(125, 1)

\* every value of the column of that name is null
C5_AllNull(df, name) ==
    \A r \in 1..df.n : isna(GetColumn(df, name)[r])

\* Month is there and is null in every row whose Date is null or missing
C5_MonthFollowsDate ==
    /\ HasColumn(work, "Month")
    /\ \A r \in 1..work.n :
          (~HasColumn(work, "Date") \/ isna(GetColumn(work, "Date")[r]))
              => isna(GetColumn(work, "Month")[r])

C9_Identity(df) ==
    [date    |-> IF HasColumn(df, "Date") THEN "Date" ELSE NONE,
     company |-> "Company", region |-> "Region",
     units   |-> "Units_Sold", revenue |-> "Revenue",
     share   |-> "Market_Share_%", csat |-> "Customer_Satisfaction_%"]

\* the columns whose values the second pass must keep
C9_Kept(df) == {name \in {"Revenue", "Units_Sold", "Date"} : HasColumn(df, name)}

\* C9: normalising the normalised table again, each canonical column mapped
\* to itself, succeeds, keeps the number of rows and leaves every value of
\* Revenue, Units_Sold and Date as it was, nulls and zero units included.
C9_Idempotent ==
    C_Normalized =>
        \E again \in {Normalize(work, C9_Identity(work))} :
            /\ again.ok
            /\ again.n = work.n
            /\ C9_Kept(again) = C9_Kept(work)
            /\ \A name \in C9_Kept(work) :
                  GetColumn(again, name) = GetColumn(work, name)

\* a table with a null date, zero units and a revenue that is not whole
\* was normalised
C9_Witness ==
    /\ C_Normalized /\ header_row = 0 /\ explicit = {}
    /\ HasColumn(work, "Date")
    /\ \E r \in 1..work.n : isna(GetColumn(work, "Date")[r])
    /\ \E r \in 1..work.n : IsZero(GetColumn(work, "Units_Sold")[r])
    /\ \E r \in 1..work.n : GetColumn(work, "Revenue")[r].k = "float"
                                /\ GetColumn(work, "Revenue")[r].b # 1

====
